---- MODULE Spec2Model ----
(***************************************************************************)
(* Model of src/main.rs of the BEST corpus analysis tool:                  *)
(*   - vectorize: one rayon task per corpus file, all tasks sharing the    *)
(*     alphabet table `map` and the code counter `init` behind RwLocks;    *)
(*   - get_unique_vecs_idx: the sort based distinct n-gram counter.        *)
(* Characters are modelled by their code points, u8 values by 0..255.      *)
(***************************************************************************)
EXTENDS Integers, Sequences, FiniteSets, TLC

VARIABLES
    build,              \* "debug" (overflow checks on) or "release" (wrapping)
    corpus,             \* the parsed corpus files, in input order
    char_include_list,  \* non-Thai characters to be vectorized
    pc,                 \* per file task: position in the closure of vectorize
    wi,                 \* per file task: index of the current Word
    ci,                 \* per file task: index of the current character
    tagged_chars,       \* per file task: Vec built for the current Word
    tagged_file,        \* per file task: Vec built for the file so far
    emitted,            \* per file task: history of <<char, code>> returned by the closure
    map,                \* the HashMap<char, u8> behind the RwLock
    init,               \* the u8 behind the RwLock
    mapReaders,         \* tasks holding the read guard of map
    mapWriter,          \* task holding the write guard of map, 0 if none
    initWriter,         \* task holding the write guard of init, 0 if none
    poisoned,           \* a task panicked while holding the write guards
    finished,           \* tasks in the order in which they completed
    status,             \* "running", "returned" or "panicked"
    result,             \* the Vec returned by vectorize
    allocated,          \* history: number of insertions of a code so far
    reported,           \* what main printed after vectorize
    gram,               \* get_unique_vecs_idx: argument gram
    raw,                \* get_unique_vecs_idx: argument raw
    gpc,                \* get_unique_vecs_idx: position in the function
    len,                \* get_unique_vecs_idx: local len
    flatten,            \* get_unique_vecs_idx: local flatten
    gfault,             \* get_unique_vecs_idx: what it panicked on, "none" if not
    unique              \* get_unique_vecs_idx: returned Vec

vars == <<build, corpus, char_include_list, pc, wi, ci, tagged_chars,
          tagged_file, emitted, map, init, mapReaders, mapWriter, initWriter,
          poisoned, finished, status, result, allocated, reported,
          gram, raw, gpc, len, flatten, gfault, unique>>

vecVars == <<build, corpus, char_include_list, pc, wi, ci, tagged_chars,
             tagged_file, emitted, map, init, mapReaders, mapWriter,
             initWriter, poisoned, finished, status, result, allocated,
             reported>>

gramVars == <<gram, raw, gpc, len, flatten, gfault, unique>>

----------------------------------------------------------------------------
(* Program constants *)

U8 == 256
THAI_FIRST == 3585
THAI_LAST == 3711
INIT_CODE == 1

(* Bounds of the model *)

MaxFiles == 2
CapChars == 256
MaxN == 5
MaxGram == 3
MaxCodeG == 3

----------------------------------------------------------------------------
(* Inputs *)

Word(chars, tag) == [chars |-> chars, tag |-> tag]

\* one Document, one Sentence, one Word of two Thai characters
FileA == << << << Word(<<3585, 3610>>, 5) >> >> >>
\* the last character of the Thai block, a listed Latin character at the end
\* of a Word, a Word without characters, a second Sentence with the
\* character right below the Thai block
FileB == << << << Word(<<3711, 65>>, 3), Word(<<>>, 7) >>,
               << Word(<<3584>>, 2) >> >> >>
\* two Documents, the character right above the Thai block, a repetition
FileC == << << << Word(<<3712>>, 4) >> >>,
            << << Word(<<3585, 3585>>, 1) >> >> >>
\* a file without Documents
FileD == << >>

SmallFiles == {FileA, FileB, FileC, FileD}

\* lines 234-235: the list is sorted and without duplicates
IncludeLists == { {65} }

\* a file with CapChars distinct eligible characters
CapFile == << << << Word([i \in 1..CapChars |-> i], 1) >> >> >>

\* lines 242-244: the paths the globs yield, one file each
SeqsUpTo(S, n) ==
    UNION { { c \in [1..k -> S] : \A i, j \in 1..k : i # j => c[i] # c[j] }
            : k \in 1..n }

Inputs ==
    { [corpus |-> c, list |-> l] : c \in SeqsUpTo(SmallFiles, MaxFiles),
                                   l \in IncludeLists }
    \cup { [corpus |-> <<CapFile>>, list |-> 1..CapChars] }

Builds == {"debug", "release"}

----------------------------------------------------------------------------
(* vectorize *)

Files == 1..Len(corpus)

RECURSIVE ConcatAll(_)
ConcatAll(ss) == IF ss = <<>> THEN <<>> ELSE Head(ss) \o ConcatAll(Tail(ss))

\* the Words of a file in the order of the nested flat_map
WordsOf(file) == ConcatAll([d \in 1..Len(file) |-> ConcatAll(file[d])])

CurWord(f) == WordsOf(corpus[f])[wi[f]]
CurChar(f) == CurWord(f).chars[ci[f]]

\* line 52 with the upper bound of the Thai block one too high
ExcludedWide(ch, list) ==
    (ch < THAI_FIRST \/ ch > THAI_LAST + 1) /\ ch \notin list

\* line 52
Excluded(ch, list) == (ch < THAI_FIRST \/ ch > THAI_LAST) /\ ch \notin list

\* position of the task when it turns to Word w of its file
EnterWord(f, w) ==
    /\ wi' = [wi EXCEPT ![f] = w]
    /\ ci' = [ci EXCEPT ![f] = 1]
    /\ IF w > Len(WordsOf(corpus[f]))
       THEN /\ pc' = [pc EXCEPT ![f] = "done"]
            /\ finished' = Append(finished, f)
       ELSE /\ pc' = [pc EXCEPT ![f] =
                        IF WordsOf(corpus[f])[w].chars = <<>> THEN "endword"
                                                                ELSE "char"]
            /\ UNCHANGED finished

\* the closure over ch returns pair
Push(f, pair) ==
    /\ tagged_chars' = [tagged_chars EXCEPT ![f] = Append(@, pair)]
    /\ emitted' = [emitted EXCEPT ![f] = Append(@, <<CurChar(f), pair[1]>>)]
    /\ IF ci[f] < Len(CurWord(f).chars)
       THEN /\ ci' = [ci EXCEPT ![f] = @ + 1]
            /\ pc' = [pc EXCEPT ![f] = "char"]
       ELSE /\ pc' = [pc EXCEPT ![f] = "endword"]
            /\ UNCHANGED ci

NotReported == [done |-> FALSE, chars |-> 0, unique |-> 0]

Init ==
    /\ build \in Builds
    /\ \E i \in Inputs : corpus = i.corpus /\ char_include_list = i.list
    /\ pc = [f \in Files |-> "idle"]
    /\ wi = [f \in Files |-> 1]
    /\ ci = [f \in Files |-> 1]
    /\ tagged_chars = [f \in Files |-> <<>>]
    /\ tagged_file = [f \in Files |-> <<>>]
    /\ emitted = [f \in Files |-> <<>>]
    /\ map = <<>>
    /\ init = INIT_CODE
    /\ mapReaders = {}
    /\ mapWriter = 0
    /\ initWriter = 0
    /\ poisoned = FALSE
    /\ finished = <<>>
    /\ status = "running"
    /\ result = <<>>
    /\ allocated = 0
    /\ reported = NotReported
    /\ gram = 0 /\ raw = <<>> /\ gpc = "off" /\ len = 0
    /\ flatten = <<>> /\ gfault = "none" /\ unique = <<>>

\* lines 44-47: the task of file f starts
StartFile(f) ==
    /\ status = "running"
    /\ pc[f] = "idle"
    /\ EnterWord(f, 1)
    /\ UNCHANGED <<build, corpus, char_include_list, tagged_chars, tagged_file,
                   emitted, map, init, mapReaders, mapWriter, initWriter,
                   poisoned, status, result, allocated, reported, gramVars>>

\* lines 51-54
CheckChar(f) ==
    /\ pc[f] = "char"
    /\ IF Excluded(CurChar(f), char_include_list)
       THEN Push(f, <<0, 0>>)
       ELSE /\ pc' = [pc EXCEPT ![f] = "read"]
            /\ UNCHANGED <<ci, tagged_chars, emitted>>
    /\ UNCHANGED <<build, corpus, char_include_list, wi, tagged_file, map,
                   init, mapReaders, mapWriter, initWriter, poisoned, finished,
                   status, result, allocated, reported, gramVars>>

\* line 57: map.read().unwrap(); unwrap() panics on a poisoned lock
ReadLock(f) ==
    /\ pc[f] = "read"
    /\ mapWriter = 0
    /\ IF poisoned
       THEN /\ pc' = [pc EXCEPT ![f] = "panic"]
            /\ UNCHANGED mapReaders
       ELSE /\ mapReaders' = mapReaders \cup {f}
            /\ pc' = [pc EXCEPT ![f] = "lookup"]
    /\ UNCHANGED <<build, corpus, char_include_list, wi, ci, tagged_chars,
                   tagged_file, emitted, map, init, mapWriter, initWriter,
                   poisoned, finished, status, result, allocated, reported, gramVars>>

\* lines 59-62 without the early return of line 60
LookupNoReturn(f) ==
    /\ pc[f] = "lookup"
    /\ mapReaders' = mapReaders \ {f}
    /\ pc' = [pc EXCEPT ![f] = "wantmap"]
    /\ UNCHANGED <<build, corpus, char_include_list, wi, ci, tagged_chars,
                   tagged_file, emitted, map, init, mapWriter, initWriter,
                   poisoned, finished, status, result, allocated, reported,
                   gramVars>>

\* lines 59-62 without the block of lines 56 and 62: the read guard lives on
\* after a miss
LookupKeepGuard(f) ==
    /\ pc[f] = "lookup"
    /\ IF CurChar(f) \in DOMAIN map
       THEN /\ Push(f, <<map[CurChar(f)], 0>>)
            /\ mapReaders' = mapReaders \ {f}
       ELSE /\ pc' = [pc EXCEPT ![f] = "wantmap"]
            /\ UNCHANGED <<ci, tagged_chars, emitted, mapReaders>>
    /\ UNCHANGED <<build, corpus, char_include_list, wi, tagged_file, map,
                   init, mapWriter, initWriter, poisoned, finished, status,
                   result, allocated, reported, gramVars>>

\* lines 59-62: the lookup under the read guard, which is dropped either way
Lookup(f) ==
    /\ pc[f] = "lookup"
    /\ mapReaders' = mapReaders \ {f}
    /\ IF CurChar(f) \in DOMAIN map
       THEN Push(f, <<map[CurChar(f)], 0>>)
       ELSE /\ pc' = [pc EXCEPT ![f] = "wantmap"]
            /\ UNCHANGED <<ci, tagged_chars, emitted>>
    /\ UNCHANGED <<build, corpus, char_include_list, wi, tagged_file, map,
                   init, mapWriter, initWriter, poisoned, finished, status,
                   result, allocated, reported, gramVars>>

\* line 63: map.write().unwrap(); unwrap() panics on a poisoned lock
WriteLockMap(f) ==
    /\ pc[f] = "wantmap"
    /\ mapWriter = 0
    /\ mapReaders = {}
    /\ IF poisoned
       THEN /\ pc' = [pc EXCEPT ![f] = "panic"]
            /\ UNCHANGED mapWriter
       ELSE /\ mapWriter' = f
            /\ pc' = [pc EXCEPT ![f] = "wantinit"]
    /\ UNCHANGED <<build, corpus, char_include_list, wi, ci, tagged_chars,
                   tagged_file, emitted, map, init, mapReaders, initWriter,
                   poisoned, finished, status, result, allocated, reported, gramVars>>

\* line 64: init.write().unwrap()
WriteLockInit(f) ==
    /\ pc[f] = "wantinit"
    /\ initWriter = 0
    /\ initWriter' = f
    /\ pc' = [pc EXCEPT ![f] = "insert"]
    /\ UNCHANGED <<build, corpus, char_include_list, wi, ci, tagged_chars,
                   tagged_file, emitted, map, init, mapReaders, mapWriter,
                   poisoned, finished, status, result, allocated, reported, gramVars>>

\* line 65 with entry(ch).or_insert(v): an entry that is there is kept
MapInsertIfAbsent(m, ch, v) ==
    [c \in DOMAIN m \cup {ch} |-> IF c \in DOMAIN m THEN m[c] ELSE v]

\* HashMap::insert
MapInsert(m, ch, v) ==
    [c \in DOMAIN m \cup {ch} |-> IF c = ch THEN v ELSE m[c]]

\* lines 65 and 67 in the other order: the code stored is the counter after
\* the increment
InsertAhead(f) ==
    /\ pc[f] = "insert"
    /\ map' = MapInsert(map, CurChar(f), (init + 1) % U8)
    /\ allocated' = allocated + 1
    /\ pc' = [pc EXCEPT ![f] = "incr"]
    /\ UNCHANGED <<build, corpus, char_include_list, wi, ci, tagged_chars,
                   tagged_file, emitted, init, mapReaders, mapWriter,
                   initWriter, poisoned, finished, status, result, reported,
                   gramVars>>

\* line 65
Insert(f) ==
    /\ pc[f] = "insert"
    /\ map' = MapInsert(map, CurChar(f), init)
    /\ allocated' = allocated + 1
    /\ pc' = [pc EXCEPT ![f] = "incr"]
    /\ UNCHANGED <<build, corpus, char_include_list, wi, ci, tagged_chars,
                   tagged_file, emitted, init, mapReaders, mapWriter,
                   initWriter, poisoned, finished, status, result, reported,
                   gramVars>>

\* line 67 on a copy of the counter: the u8 behind the lock stays as it is
IncrementLost(f) ==
    /\ pc[f] = "incr"
    /\ pc' = [pc EXCEPT ![f] = "ret"]
    /\ UNCHANGED <<build, corpus, char_include_list, wi, ci, tagged_chars,
                   tagged_file, emitted, map, init, mapReaders, mapWriter,
                   initWriter, poisoned, finished, status, result, allocated,
                   reported, gramVars>>

\* line 67: *v += 1 on a u8; a debug build panics on overflow, with both
\* write guards held, and the unwinding poisons both locks
Increment(f) ==
    /\ pc[f] = "incr"
    /\ IF init + 1 >= U8 /\ build = "debug"
       THEN /\ pc' = [pc EXCEPT ![f] = "panic"]
            /\ poisoned' = TRUE
            /\ mapWriter' = 0
            /\ initWriter' = 0
            /\ UNCHANGED init
       ELSE /\ init' = (init + 1) % U8
            /\ pc' = [pc EXCEPT ![f] = "ret"]
            /\ UNCHANGED <<poisoned, mapWriter, initWriter>>
    /\ UNCHANGED <<build, corpus, char_include_list, wi, ci, tagged_chars,
                   tagged_file, emitted, map, mapReaders, finished, status,
                   result, allocated, reported, gramVars>>

\* line 69: return (*v - 1, 0), dropping both write guards
ReturnNew(f) ==
    /\ pc[f] = "ret"
    /\ Push(f, <<(init - 1) % U8, 0>>)
    /\ mapWriter' = 0
    /\ initWriter' = 0
    /\ UNCHANGED <<build, corpus, char_include_list, wi, tagged_file, map,
                   init, mapReaders, poisoned, finished, status, result,
                   allocated, reported, gramVars>>

\* lines 71-73 with first_mut() in place of last_mut()
SetFirstTag(chars, tag) ==
    IF chars = <<>> THEN chars
    ELSE [chars EXCEPT ![1] = <<@[1], tag>>]

\* lines 71-73
SetLastTag(chars, tag) ==
    IF chars = <<>> THEN chars
    ELSE [chars EXCEPT ![Len(chars)] = <<@[1], tag>>]

\* lines 70-74: the Word is complete, its pairs join those of the file
WordDone(f) ==
    /\ pc[f] = "endword"
    /\ tagged_file' = [tagged_file EXCEPT ![f] =
                          @ \o SetLastTag(tagged_chars[f], CurWord(f).tag)]
    /\ tagged_chars' = [tagged_chars EXCEPT ![f] = <<>>]
    /\ EnterWord(f, wi[f] + 1)
    /\ UNCHANGED <<build, corpus, char_include_list, emitted, map, init,
                   mapReaders, mapWriter, initWriter, poisoned, status, result,
                   allocated, reported, gramVars>>

\* the per file Vecs in the order of the files
RECURSIVE ConcatBy(_, _)
ConcatBy(order, vecs) ==
    IF order = <<>> THEN <<>>
    ELSE vecs[Head(order)] \o ConcatBy(Tail(order), vecs)

InputOrder == [i \in 1..Len(corpus) |-> i]

\* line 84 with the Vecs of the files appended as the tasks complete
CompletionOrder == finished

\* line 84: collect() of the parallel flat_map
CollectOrder == InputOrder

\* lines 43, 84: all tasks are over; a panic of a task is resumed in the caller
Collect ==
    /\ status = "running"
    /\ \A f \in Files : pc[f] \in {"done", "panic"}
    /\ IF \E f \in Files : pc[f] = "panic"
       THEN /\ status' = "panicked"
            /\ UNCHANGED result
       ELSE /\ status' = "returned"
            /\ result' = ConcatBy(CollectOrder, tagged_file)
    /\ UNCHANGED <<build, corpus, char_include_list, pc, wi, ci, tagged_chars,
                   tagged_file, emitted, map, init, mapReaders, mapWriter,
                   initWriter, poisoned, finished, allocated, reported, gramVars>>

\* lines 252-254: main prints the number of pairs and *v.read().unwrap()
Report ==
    /\ status = "returned"
    /\ ~reported.done
    /\ reported' = [done |-> TRUE, chars |-> Len(result), unique |-> init]
    /\ UNCHANGED <<build, corpus, char_include_list, pc, wi, ci, tagged_chars,
                   tagged_file, emitted, map, init, mapReaders, mapWriter,
                   initWriter, poisoned, finished, status, result, allocated,
                   gramVars>>

Next ==
    \/ \E f \in Files : StartFile(f)
    \/ \E f \in Files : CheckChar(f)
    \/ \E f \in Files : ReadLock(f)
    \/ \E f \in Files : Lookup(f)
    \/ \E f \in Files : WriteLockMap(f)
    \/ \E f \in Files : WriteLockInit(f)
    \/ \E f \in Files : Insert(f)
    \/ \E f \in Files : Increment(f)
    \/ \E f \in Files : ReturnNew(f)
    \/ \E f \in Files : WordDone(f)
    \/ Collect
    \/ Report

Spec == Init /\ [][Next]_vars

\* the threads of the pool keep running: a task that can take a step takes
\* one, and so does main once the tasks are over. Weak fairness of every
\* task implies weak fairness of Next: while no step is taken the state
\* stays as it is, and a step that is enabled stays enabled.
FairSpec == Init /\ [][Next]_vars /\ WF_vars(Next)

----------------------------------------------------------------------------
(* get_unique_vecs_idx *)

\* line 131: the validator of the gram argument rejects 0
Grams == 1..MaxGram

RawSeqs == UNION { [1..n -> 0..MaxCodeG] : n \in 0..MaxN }

InitG ==
    /\ build \in Builds
    /\ gram \in Grams
    /\ raw \in RawSeqs
    /\ gpc = "start"
    /\ len = 0
    /\ flatten = <<>>
    /\ gfault = "none"
    /\ unique = <<>>
    /\ corpus = <<>> /\ char_include_list = {}
    /\ pc = <<>> /\ wi = <<>> /\ ci = <<>>
    /\ tagged_chars = <<>> /\ tagged_file = <<>> /\ emitted = <<>>
    /\ map = <<>> /\ init = INIT_CODE
    /\ mapReaders = {} /\ mapWriter = 0 /\ initWriter = 0
    /\ poisoned = FALSE /\ finished = <<>>
    /\ status = "off" /\ result = <<>>
    /\ allocated = 0 /\ reported = NotReported

\* line 89 with the window of offset raw.len() - g counted in
WindowCountAll(n, g) == n - g + 1

\* line 89: the number of windows
WindowCount(n, g) == n - g

\* lines 88-89: raw.len() - g on usize; a debug build panics when g exceeds
\* raw.len(), a release build wraps: a negative len stands for 2^64 + len
GLen ==
    /\ gpc = "start"
    /\ IF Len(raw) < gram /\ build = "debug"
       THEN /\ gpc' = "panic"
            /\ gfault' = "subtract with overflow"
            /\ UNCHANGED len
       ELSE /\ len' = WindowCount(Len(raw), gram)
            /\ gpc' = "windows"
            /\ UNCHANGED gfault
    /\ UNCHANGED <<vecVars, gram, raw, flatten, unique>>

\* lines 90-92: the window of every offset in 0..len-1
Windows(r, g, n) == [i \in 1..n |-> [j \in 1..g |-> r[(i - 1) + j]]]

\* lines 90-92: a wrapped len asks for close to 2^64 windows; collecting them
\* panics, on the capacity of the Vec or on raw[i + j] of the window of
\* offset 0, which reads past raw
GWindows ==
    /\ gpc = "windows"
    /\ IF len < 0
       THEN /\ gpc' = "panic"
            /\ gfault' = "window materialization"
            /\ UNCHANGED flatten
       ELSE /\ flatten' = Windows(raw, gram, len)
            /\ gpc' = "sort"
            /\ UNCHANGED gfault
    /\ UNCHANGED <<vecVars, gram, raw, len, unique>>

\* Ord of Vec<u8>: lexicographic
RECURSIVE LexLeq(_, _)
LexLeq(a, b) ==
    IF a = <<>> THEN TRUE
    ELSE IF b = <<>> THEN FALSE
    ELSE IF Head(a) < Head(b) THEN TRUE
    ELSE IF Head(a) > Head(b) THEN FALSE
    ELSE LexLeq(Tail(a), Tail(b))

RECURSIVE SortedInsert(_, _)
SortedInsert(x, s) ==
    IF s = <<>> THEN <<x>>
    ELSE IF LexLeq(x, Head(s)) THEN <<x>> \o s
    ELSE <<Head(s)>> \o SortedInsert(x, Tail(s))

\* line 93 left out
SortWindowsNone(s) == s

\* line 93: sort_unstable
RECURSIVE SortWindows(_)
SortWindows(s) ==
    IF s = <<>> THEN <<>>
    ELSE SortedInsert(Head(s), SortWindows(Tail(s)))

GSort ==
    /\ gpc = "sort"
    /\ flatten' = SortWindows(flatten)
    /\ gpc' = "slice"
    /\ UNCHANGED <<vecVars, gram, raw, len, gfault, unique>>

\* lines 96-97: &flatten[1..] panics on an empty flatten
GSlice ==
    /\ gpc = "slice"
    /\ IF Len(flatten) < 1
       THEN /\ gpc' = "panic"
            /\ gfault' = "slice index out of range"
       ELSE /\ gpc' = "scan"
            /\ UNCHANGED gfault
    /\ UNCHANGED <<vecVars, gram, raw, len, flatten, unique>>

\* lines 98-110 with None and Some(i + 1) exchanged
RECURSIVE MatcherEq(_, _, _)
MatcherEq(f0, f1, i) ==
    IF f0 = <<>> \/ f1 = <<>> THEN <<>>
    ELSE (IF Head(f0) = Head(f1) THEN <<i + 1>> ELSE <<>>)
         \o MatcherEq(Tail(f0), Tail(f1), i + 1)

\* lines 98-110: zip, enumerate and filter_map from index i on
RECURSIVE Matcher(_, _, _)
Matcher(f0, f1, i) ==
    IF f0 = <<>> \/ f1 = <<>> THEN <<>>
    ELSE (IF Head(f0) = Head(f1) THEN <<>> ELSE <<i + 1>>)
         \o Matcher(Tail(f0), Tail(f1), i + 1)

\* lines 95-114
GScan ==
    /\ gpc = "scan"
    /\ unique' = <<0>> \o Matcher(SubSeq(flatten, 1, Len(flatten) - 1),
                                  SubSeq(flatten, 2, Len(flatten)), 0)
    /\ gpc' = "returned"
    /\ UNCHANGED <<vecVars, gram, raw, len, flatten, gfault>>

NextG ==
    \/ GLen
    \/ GWindows
    \/ GSort
    \/ GSlice
    \/ GScan

SpecGram == InitG /\ [][NextG]_vars

----------------------------------------------------------------------------
(* Reference notions of the specification *)

\* the characters of a file in the order file -> Document -> Sentence ->
\* Word -> character
CharsOf(file) ==
    ConcatAll([w \in 1..Len(WordsOf(file)) |-> WordsOf(file)[w].chars])

\* tag 0 for every character of a Word but the last, which has the Word's tag
WordTags(word) ==
    [k \in 1..Len(word.chars) |-> IF k = Len(word.chars) THEN word.tag ELSE 0]

TagsOf(file) ==
    ConcatAll([w \in 1..Len(WordsOf(file)) |-> WordTags(WordsOf(file)[w])])

AllChars == ConcatBy(InputOrder, [f \in Files |-> CharsOf(corpus[f])])
AllTags == ConcatBy(InputOrder, [f \in Files |-> TagsOf(corpus[f])])
AllEmitted == ConcatBy(InputOrder, emitted)

\* outside the Thai block and not in the caller-supplied eligible set
Outside(ch) == ch \notin ((3585..3711) \cup char_include_list)

EligibleSeen ==
    { e[1] : e \in UNION { { emitted[f][k] : k \in 1..Len(emitted[f]) }
                           : f \in Files } } \ { ch \in 0..4000 : Outside(ch) }

\* the codes of a single worker going through chars with table m and counter v
RECURSIVE SeqCodes(_, _, _)
SeqCodes(chars, m, v) ==
    IF chars = <<>> THEN <<>>
    ELSE LET ch == Head(chars) IN
         IF Outside(ch) THEN <<0>> \o SeqCodes(Tail(chars), m, v)
         ELSE IF ch \in DOMAIN m THEN <<m[ch]>> \o SeqCodes(Tail(chars), m, v)
         ELSE <<v>> \o SeqCodes(Tail(chars), MapInsert(m, ch, v), (v + 1) % U8)

SequentialRun ==
    LET codes == SeqCodes(AllChars, <<>>, 1)
    IN  [i \in 1..Len(AllChars) |-> <<codes[i], AllTags[i]>>]

\* number of characters of the Words before Word w
RECURSIVE CharsBefore(_, _)
CharsBefore(words, w) ==
    IF w <= 1 THEN 0
    ELSE CharsBefore(words, w - 1) + Len(words[w - 1].chars)

\* Words of file f whose pairs have joined tagged_file
WordsDone(f) == IF pc[f] = "idle" THEN 0 ELSE wi[f] - 1

----------------------------------------------------------------------------
(* Claims *)

\* C1: from an empty table and counter 1, vectorize returns, in every
\* interleaving of the file tasks, the sequence of (code, tag) pairs of a
\* single worker going through the files in input order.
C1_SameAsSingleWorker ==
    status = "returned" => result = SequentialRun

\* C2: the i-th element returned by vectorize is the pair produced for the
\* i-th character of the sequential traversal: as many elements as
\* characters, the code the closure returned for that character, and the tag
\* of a sequential run.
C2_ElementOrder ==
    status = "returned" =>
        LET chars == AllChars
            tags == AllTags
            rets == AllEmitted
        IN  /\ Len(result) = Len(chars)
            /\ Len(rets) = Len(chars)
            /\ \A i \in 1..Len(chars) :
                  /\ rets[i][1] = chars[i]
                  /\ result[i] = <<rets[i][2], tags[i]>>

\* two tasks that completed in the reverse of their input order, both with
\* pairs of their own
C2_Witness ==
    /\ status = "returned"
    /\ Len(corpus) = 2
    /\ finished = <<2, 1>>
    /\ tagged_file[1] # <<>> /\ tagged_file[2] # <<>>
    /\ tagged_file[1] # tagged_file[2]

\* C3: when vectorize returns, the table has exactly one entry for every
\* eligible character met, every code in it is at least 1 and no two
\* characters have the same code.
C3_TableAtEnd ==
    status = "returned" =>
        /\ DOMAIN map = EligibleSeen
        /\ \A c \in DOMAIN map : map[c] >= 1
        /\ \A c, d \in DOMAIN map : c # d => map[c] # map[d]

\* C4: once a character has an entry in the table, no step changes the code
\* it maps to.
C4_MappingStable ==
    [][\A c \in DOMAIN map : c \in DOMAIN map' /\ map'[c] = map[c]]_vars

\* C5: when vectorize returns, every pair of an eligible character carries
\* the code the final table has for that character.
C5_ConsistentCodes ==
    status = "returned" =>
        LET chars == AllChars IN
        \A i \in 1..Len(result) :
            ~Outside(chars[i]) => result[i][1] = map[chars[i]]

\* C6: a character outside the Thai block and outside the eligible set gets
\* code 0 at every occurrence, in the closure's return value, in the Vec of
\* the file and in the returned Vec.
C6_ExcludedZero ==
    /\ \A f \in Files : \A k \in 1..Len(emitted[f]) :
          Outside(emitted[f][k][1]) => emitted[f][k][2] = 0
    /\ \A f \in Files :
          LET chars == CharsOf(corpus[f]) IN
          \A k \in 1..Len(tagged_file[f]) :
              Outside(chars[k]) => tagged_file[f][k][1] = 0
    /\ status = "returned" =>
          LET chars == AllChars IN
          \A i \in 1..Len(result) : Outside(chars[i]) => result[i][1] = 0

\* an excluded character was returned after the table got entries
C6_Witness ==
    /\ status = "returned"
    /\ DOMAIN map # {}
    /\ \E i \in 2..Len(result) :
          /\ Outside(AllChars[i])
          /\ result[i - 1][1] >= 1

\* C7: the k >= 1 pairs of a Word with tag t have tag 0 at positions 0..k-2
\* and t at position k-1, and a Word without characters has no pairs.
C7_TagCorrectness ==
    \A f \in Files :
        LET words == WordsOf(corpus[f]) IN
        /\ Len(tagged_file[f]) = CharsBefore(words, WordsDone(f) + 1)
        /\ \A w \in 1..WordsDone(f) :
              \A p \in 1..Len(words[w].chars) :
                  tagged_file[f][CharsBefore(words, w) + p][2] =
                      IF p = Len(words[w].chars) THEN words[w].tag ELSE 0

\* a file is through with a Word of two characters, a Word without
\* characters and a Word ending in an excluded character
C7_Witness ==
    \E f \in Files :
        LET words == WordsOf(corpus[f]) IN
        /\ pc[f] = "done"
        /\ \E w \in 1..Len(words) : Len(words[w].chars) >= 2
        /\ \E w \in 1..Len(words) : Len(words[w].chars) = 0
        /\ \E w \in 1..Len(words) :
              /\ Len(words[w].chars) >= 1
              /\ Outside(words[w].chars[Len(words[w].chars)])
              /\ words[w].tag # 0

\* the windows of length g of r starting at the offsets 0..last
WindowSet(r, g, last) == { SubSeq(r, i + 1, i + g) : i \in 0..last }

\* C8: for N > g >= 1 the returned list is as long as there are distinct
\* windows of length g among those of all valid offsets 0..N-g.
C8_DistinctAllOffsets ==
    (gpc = "returned" /\ Len(raw) > gram) =>
        Len(unique) = Cardinality(WindowSet(raw, gram, Len(raw) - gram))

\* C8 as amended: for N > g >= 1 the returned list is as long as there are
\* distinct windows of length g among those of the offsets 0..N-g-1.
C8_DistinctMaterialized ==
    (gpc = "returned" /\ Len(raw) > gram) =>
        Len(unique) = Cardinality(WindowSet(raw, gram, Len(raw) - gram - 1))

\* a window occurs twice, another one differs, and the window of offset N-g
\* is none of the earlier ones
C8_Witness ==
    /\ gpc = "returned"
    /\ Len(raw) > gram
    /\ Len(unique) >= 2
    /\ Len(unique) < Len(raw) - gram
    /\ SubSeq(raw, Len(raw) - gram + 1, Len(raw))
          \notin WindowSet(raw, gram, Len(raw) - gram - 1)

\* C9: for N > g >= 1 exactly N - g windows are materialized, those of the
\* offsets 0..N-g-1, each of length g; the one of offset N-g is not.
C9_MaterializedWindows ==
    (Len(raw) > gram /\ gpc \in {"sort", "slice", "scan", "returned"}) =>
        /\ Len(flatten) = Len(raw) - gram
        /\ \A i \in 1..Len(flatten) : Len(flatten[i]) = gram
        /\ gpc = "sort" =>
              \A i \in 0..(Len(raw) - gram - 1) :
                  flatten[i + 1] = SubSeq(raw, i + 1, i + gram)

\* the windows of a sequence are there, unsorted yet, and the last window of
\* the sequence differs from all of them
C9_Witness ==
    /\ gpc = "sort"
    /\ gram >= 2
    /\ Len(raw) >= gram + 2
    /\ Len(flatten) = Len(raw) - gram
    /\ SubSeq(raw, Len(raw) - gram + 1, Len(raw))
          \notin { flatten[i] : i \in 1..Len(flatten) }

\* C10: when g >= N the function fails with a defined error before any
\* n-gram work: no subtraction underflow, no index out of range, no windows,
\* no result.
C10_ShortInputRejected ==
    gram >= Len(raw) =>
        /\ gpc \notin {"windows", "sort", "slice", "scan", "returned"}
        /\ gfault = "none"
        /\ len >= 0

\* C11: for N > g >= 1 the returned list has at least 1 and at most N - g
\* entries.
C11_CountRange ==
    (gpc = "returned" /\ Len(raw) > gram) =>
        /\ Len(unique) >= 1
        /\ Len(unique) <= Len(raw) - gram

\* all materialized windows differ: the upper end of the range is taken
C11_Witness ==
    /\ gpc = "returned"
    /\ Len(raw) >= gram + 2
    /\ Len(unique) = Len(raw) - gram

\* C12: the counter is never wrapped to 0 and no character is stored or
\* returned with a wrapped code: the run fails instead of allocating past
\* the u8 range.
C12_NoSilentWrap ==
    /\ init >= 1
    /\ \A c \in DOMAIN map : map[c] >= 1
    /\ allocated >= U8 - 1 => status # "returned"

\* C13: the number main prints as the total of unique characters is the
\* number of entries of the final table.
C13_ReportedTableSize ==
    reported.done => reported.unique = Cardinality(DOMAIN map)

\* the distinct eligible characters among the first k returns of file f
SeenUpTo(f, k) ==
    { c \in { emitted[f][j][1] : j \in 1..k } : ~Outside(c) }

\* index of the first return of file f for the character of its k-th return
FirstReturn(f, k) ==
    CHOOSE j \in 1..k :
        /\ emitted[f][j][1] = emitted[f][k][1]
        /\ \A i \in 1..(j - 1) : emitted[f][i][1] # emitted[f][k][1]

\* C14: with a single worker (one file), from an empty table and counter 1,
\* the i-th distinct eligible character in traversal order gets code i at
\* every occurrence; one Word ['ก','บ'] tagged 5 yields [(1,0),(2,5)].
\* The returns of a file only grow, one at a time, so the latest return of
\* every reachable state covers all of them.
C14_SequentialCodes ==
    Len(corpus) = 1 =>
        /\ LET k == Len(emitted[1]) IN
              (k >= 1 /\ ~Outside(emitted[1][k][1])) =>
                  emitted[1][k][2] = Cardinality(SeenUpTo(1, FirstReturn(1, k)))
        /\ (corpus = <<FileA>> /\ status = "returned") =>
              result = <<<<1, 0>>, <<2, 5>>>>

\* C15: a lookup that finds the character under the read guard returns the
\* mapped code with tag 0, leaves table and counter as they are and goes on
\* without asking for a write guard.
C15_HitIsReadOnly ==
    [][\A f \in Files :
          (pc[f] = "lookup" /\ pc'[f] # "lookup"
                            /\ CurChar(f) \in DOMAIN map) =>
              /\ map' = map
              /\ init' = init
              /\ allocated' = allocated
              /\ mapWriter' = mapWriter /\ initWriter' = initWriter
              /\ f \notin mapReaders'
              /\ pc'[f] \in {"char", "endword"}
              /\ tagged_chars'[f] =
                    Append(tagged_chars[f], <<map[CurChar(f)], 0>>)]_vars

\* a file returned an eligible character a second time: the second return
\* is a hit
C15_Witness ==
    \E f \in Files : \E k \in 2..Len(emitted[f]) :
        /\ ~Outside(emitted[f][k][1])
        /\ FirstReturn(f, k) < k

\* the codes handed out so far that the table maps no character to
OrphanedCodes == (1..(init - 1)) \ { map[c] : c \in DOMAIN map }

AllReturns == UNION { { emitted[f][k] : k \in 1..Len(emitted[f]) } : f \in Files }

\* C16: two workers can both miss a character and both insert it: the
\* counter is then further than the table has entries, and every code the
\* table lost this way was returned for a character that the table now maps
\* to a later code.
C16_OrphanedByReinsertion ==
    mapWriter = 0 =>
        \A k \in OrphanedCodes :
            \E e \in AllReturns :
                /\ e[2] = k
                /\ e[1] \in DOMAIN map
                /\ map[e[1]] > k

\* both insertions of the same character are over: the counter advanced
\* twice, the table has one entry
C16_Witness ==
    /\ mapWriter = 0
    /\ Cardinality(DOMAIN map) = 1
    /\ init = 3
    /\ OrphanedCodes = {1}
    /\ \E f, h \in Files : \E c \in DOMAIN map :
          /\ f # h
          /\ <<c, 1>> \in { emitted[f][k] : k \in 1..Len(emitted[f]) }
          /\ <<c, 2>> \in { emitted[h][k] : k \in 1..Len(emitted[h]) }

\* C17: the returned list begins with 0, is strictly increasing, and has
\* k+1 (0 <= k < N-g-1) iff sorted window k differs from sorted window k+1,
\* the sorted windows being the N - g materialized ones in lexicographic
\* order; codes [1,2,1,2,3] with g = 2 return [0, 2].
C17_Boundaries ==
    (gpc = "returned" /\ Len(raw) > gram) =>
        /\ unique[1] = 0
        /\ \A i \in 1..(Len(unique) - 1) : unique[i] < unique[i + 1]
        /\ Len(flatten) = Len(raw) - gram
        /\ \A i \in 1..(Len(flatten) - 1) : LexLeq(flatten[i], flatten[i + 1])
        /\ \A w \in WindowSet(raw, gram, Len(raw) - gram - 1) :
              Cardinality({ i \in 1..Len(flatten) : flatten[i] = w }) =
              Cardinality({ i \in 0..(Len(raw) - gram - 1) :
                              SubSeq(raw, i + 1, i + gram) = w })
        /\ \A k \in 0..(Len(raw) - gram - 2) :
              (k + 1 \in { unique[i] : i \in 1..Len(unique) })
                  <=> flatten[k + 1] # flatten[k + 2]
        /\ (raw = <<1, 2, 1, 2, 3>> /\ gram = 2) => unique = <<0, 2>>

C17_Witness ==
    /\ gpc = "returned"
    /\ raw = <<1, 2, 1, 2, 3>>
    /\ gram = 2
    /\ flatten = <<<<1, 2>>, <<1, 2>>, <<2, 1>>>>

\* a task that is not over
Unfinished(f) == pc[f] \notin {"done", "panic"}

\* a task waiting for a lock that is not free
Blocked(f) ==
    \/ pc[f] = "read" /\ mapWriter # 0
    \/ pc[f] = "wantmap" /\ (mapWriter # 0 \/ mapReaders # {})
    \/ pc[f] = "wantinit" /\ initWriter # 0

NotAllBlocked ==
    (\E f \in Files : Unfinished(f)) =>
        \E f \in Files : Unfinished(f) /\ ~Blocked(f)

\* the lock discipline: a task asking for a write guard holds no read guard,
\* and the write guard of init is only held under the one of map
LockOrder ==
    /\ \A f \in Files : pc[f] \in {"wantmap", "wantinit"} => f \notin mapReaders
    /\ initWriter # 0 => mapWriter = initWriter

CodedPairs ==
    { e \in AllReturns \cup { <<c, map[c]>> : c \in DOMAIN map } : e[2] >= 1 }

\* C19: while fewer than 255 codes have been allocated, no code from 1 on
\* is returned for, or stored against, two different characters.
C19_CodesInjective ==
    allocated < U8 - 1 =>
        Cardinality(CodedPairs) = Cardinality({ e[2] : e \in CodedPairs })

\* a character was inserted twice and returned with both codes, next to
\* another character
C19_Witness ==
    /\ status = "returned"
    /\ allocated < U8 - 1
    /\ Cardinality(DOMAIN map) >= 2
    /\ \E e, d \in AllReturns : e[1] = d[1] /\ e[2] # d[2]

\* C20: while fewer than 255 codes have been allocated, whenever no task
\* holds the write guard the counter is at least 1, every code of the table
\* is at least 1 and below the counter, the table has at most counter - 1
\* entries; and the counter never decreases.
C20_CounterBoundsTable ==
    /\ []((allocated < U8 - 1 /\ mapWriter = 0) =>
            /\ init >= 1
            /\ \A c \in DOMAIN map : map[c] >= 1 /\ map[c] < init
            /\ Cardinality(DOMAIN map) <= init - 1)
    /\ [][allocated < U8 - 1 => init' >= init]_vars

\* three insertions for two characters are over and no write guard is held
C20_Witness ==
    /\ mapWriter = 0
    /\ allocated = 3
    /\ init = 4
    /\ Cardinality(DOMAIN map) = 2

====
